---- MODULE Spec2Model ----
(***************************************************************************)
(* State service of deviceOIDC (services/state/index.js): seeding of the   *)
(* dataplatform schema, the periodic status insert and the occasional      *)
(* device reassignment, over a single Postgres connection.                 *)
(*                                                                         *)
(* Time is counted in clock units of 5 s, so the 10 s timer interval is 2  *)
(* units.  Timestamps (valid_from, valid_to, status_ts) are clock readings;*)
(* toISOString() and timestamptz both keep the millisecond, so a timestamp *)
(* written to the store and the one kept in memory denote the same instant.*)
(* UUIDs are drawn fresh: randomUUID(n) is the n-th one generated.         *)
(***************************************************************************)
EXTENDS Integers, Sequences, FiniteSets, TLC

VARIABLES
    phase,              \* "connecting" | "seeding" | "running" | "exited" | "crashed"
                        \* | "killed"
    seedPc,             \* next statement of ensureSchemaAndSeed (1-based)
    seedRuns,           \* completed runs of ensureSchemaAndSeed
    betriebsstaetten,   \* require("./betriebsstaetten")
    devices,            \* require("./devices")
    activeAssignments,  \* the in-memory working copy (index.js:23)
    store,              \* the dataplatform schema in Postgres
    inflight,           \* insertStatus invocations awaiting a statement, in
                        \* the order the connection will execute them
    clock,              \* wall clock
    nextFire,           \* when the interval timer fires next
    uuids,              \* number of crypto.randomUUID() calls so far
    log,                \* counters of the lines written to stdout / stderr
    rejected,           \* number of statements the store has rejected
    hello,              \* the hello service: requests received, responses sent
    lastDraw,           \* what Math.random() last returned in maybeReassignDevice
    cdc                 \* the change events of a table and its silver model

vars == <<phase, seedPc, seedRuns, betriebsstaetten, devices, activeAssignments,
          store, inflight, clock, nextFire, uuids, log, rejected, hello,
          lastDraw, cdc>>

----------------------------------------------------------------------------
(* Bounds of the model *)

MaxClock == 6

\* How often the service is started again after it has come up once
MaxRestarts == 1

\* Change events captured, and the latest ts_ms (in ms) they carry
MaxEvents == 3
MaxTs == 2

(* Program constants *)

\* setInterval(insertStatus, 10 * 1000), in clock units of 5 s
Interval == 2

\* Math.random() > 0.1, in thousandths
ReassignThreshold == 100

\* Values Math.random() may return, in thousandths of [0, 1)
RandomDraws == {50, 100, 500}

Null == 0 - 1

----------------------------------------------------------------------------
(* Reference data: services/state/{veranstalter,betriebsstaetten,devices,  *)
(* players,device_assignments}.js.  Names, regions, cities, serials and    *)
(* birth dates take no part in any decision and are left out.              *)

veranstalter ==
    << [veranstalter_id |-> "o1"], [veranstalter_id |-> "o2"] >>

AllBetriebsstaetten ==
    << [betriebsstaette_id |-> "b1", veranstalter_id |-> "o1"],
       [betriebsstaette_id |-> "b2", veranstalter_id |-> "o2"] >>

AllDevices ==
    << [geraete_id |-> "g1"], [geraete_id |-> "g2"] >>

players ==
    << [player_id |-> "p1"] >>

\* The seed assignments were all made before the process started.
SeedValidFrom == 0

\* One seed assignment per device, device i at venue i (wrapping around).
deviceAssignments(devs, venues) ==
    [i \in 1..Len(devs) |->
        LET b == venues[((i - 1) % Len(venues)) + 1] IN
        [assignment_id      |-> i,
         geraete_id         |-> devs[i].geraete_id,
         veranstalter_id    |-> b.veranstalter_id,
         betriebsstaette_id |-> b.betriebsstaette_id,
         valid_from         |-> SeedValidFrom]]

Prefixes(s) == { SubSeq(s, 1, n) : n \in 1..Len(s) }

----------------------------------------------------------------------------
(* Helpers of index.js *)

\* chooseRandom(arr): the positions arr[Math.floor(Math.random() * arr.length)]
\* can take, 1-based; 0 stands for the undefined it returns on an empty array.
chooseRandom(arr) ==
    IF Len(arr) = 0 THEN {0} ELSE 1..Len(arr)

\* crypto.randomUUID(): the n-th UUID, distinct from the seed ids and from
\* every UUID drawn before.
randomUUID(n) == Len(AllDevices) + n

\* const activeAssignments = deviceAssignments.map(a => ({...a, valid_to: null}))
InitialActiveAssignments(devs, venues) ==
    LET seed == deviceAssignments(devs, venues) IN
    [i \in 1..Len(seed) |->
        [assignment_id      |-> seed[i].assignment_id,
         geraete_id         |-> seed[i].geraete_id,
         veranstalter_id    |-> seed[i].veranstalter_id,
         betriebsstaette_id |-> seed[i].betriebsstaette_id,
         valid_from         |-> seed[i].valid_from,
         valid_to           |-> Null]]

\* Positions of the entries of arr with valid_to === null, in array order:
\* activeAssignments.filter((entry) => entry.valid_to === null)
RECURSIVE FilterActive(_, _)
FilterActive(arr, i) ==
    IF i > Len(arr) THEN << >>
    ELSE IF arr[i].valid_to = Null
         THEN << i >> \o FilterActive(arr, i + 1)
         ELSE FilterActive(arr, i + 1)

\* Variant: the filter keeps every venue, the current one included.
ReassignOptionsUnfiltered(venues, current) == venues

\* betriebsstaetten.filter(e => e.betriebsstaette_id !== current.betriebsstaette_id)
ReassignOptions(venues, current) ==
    SelectSeq(venues,
        LAMBDA e : e.betriebsstaette_id /= current.betriebsstaette_id)

----------------------------------------------------------------------------
(* The store: the tables of CREATE TABLE IF NOT EXISTS (index.js:33-100)   *)
(* with their primary and foreign keys, executing one statement at a time. *)

EmptyStore ==
    [created           |-> {},
     veranstalter      |-> {},
     betriebsstaette   |-> {},
     geraet            |-> {},
     player            |-> {},
     device_assignment |-> {},
     status_abfrage    |-> {}]

\* PRIMARY KEY column of each table
PrimaryKey(table) ==
    IF table = "status_abfrage" THEN "unique_identifier" ELSE "id"

Ids(rows) == { r.id : r \in rows }

Keys(st, table) == { r[PrimaryKey(table)] : r \in st[table] }

\* FOREIGN KEY clauses of the table a row is inserted into
ForeignKeysHold(st, table, row) ==
    CASE table = "betriebsstaette" ->
            row.veranstalter_id \in Ids(st.veranstalter)
      [] table = "device_assignment" ->
            /\ row.geraet_id \in Ids(st.geraet)
            /\ row.veranstalter_id \in Ids(st.veranstalter)
            /\ row.betriebsstaette_id \in Ids(st.betriebsstaette)
      [] table = "status_abfrage" ->
            /\ row.veranstalter_id \in Ids(st.veranstalter)
            /\ row.betriebsstaette_id \in Ids(st.betriebsstaette)
            /\ row.geraete_id \in Ids(st.geraet)
            /\ row.player_id \in Ids(st.player)
      [] OTHER -> TRUE

\* Rows of a table after adding one
WithRow(st, table, row) ==
    [st EXCEPT ![table] = st[table] \cup {row}]

\* Variant: the ON CONFLICT clause is missing, a duplicate key is an error.
ExecInsertNoConflictClause(st, table, row, onConflictDoNothing) ==
    IF table \notin st.created
    THEN [ok |-> FALSE, store |-> st]
    ELSE IF row[PrimaryKey(table)] \in Keys(st, table)
    THEN [ok |-> FALSE, store |-> st]
    ELSE IF ~ForeignKeysHold(st, table, row)
    THEN [ok |-> FALSE, store |-> st]
    ELSE [ok |-> TRUE, store |-> WithRow(st, table, row)]

\* INSERT INTO table ... VALUES row [ON CONFLICT (id) DO NOTHING]
ExecInsert(st, table, row, onConflictDoNothing) ==
    IF table \notin st.created
    THEN [ok |-> FALSE, store |-> st]
    ELSE IF row[PrimaryKey(table)] \in Keys(st, table)
    THEN [ok |-> onConflictDoNothing, store |-> st]
    ELSE IF ~ForeignKeysHold(st, table, row)
    THEN [ok |-> FALSE, store |-> st]
    ELSE [ok |-> TRUE, store |-> WithRow(st, table, row)]

\* Variant: the statement sets the wrong column, valid_from instead of valid_to.
ExecUpdateWrongColumn(st, id, validTo) ==
    IF "device_assignment" \notin st.created
    THEN [ok |-> FALSE, store |-> st]
    ELSE [ok |-> TRUE,
          store |-> [st EXCEPT !.device_assignment =
                        { IF r.id = id THEN [r EXCEPT !.valid_from = validTo] ELSE r
                          : r \in st.device_assignment }]]

\* Variant: the parameters are bound in the wrong order, no row matches.
ExecUpdateNoMatch(st, id, validTo) ==
    IF "device_assignment" \notin st.created
    THEN [ok |-> FALSE, store |-> st]
    ELSE [ok |-> TRUE, store |-> st]

\* UPDATE dataplatform.device_assignment SET valid_to = $1 WHERE id = $2
ExecUpdateValidTo(st, id, validTo) ==
    IF "device_assignment" \notin st.created
    THEN [ok |-> FALSE, store |-> st]
    ELSE [ok |-> TRUE,
          store |-> [st EXCEPT !.device_assignment =
                        { IF r.id = id THEN [r EXCEPT !.valid_to = validTo] ELSE r
                          : r \in st.device_assignment }]]

\* CREATE SCHEMA / CREATE TABLE IF NOT EXISTS
ExecCreate(st, name) ==
    [ok |-> TRUE, store |-> [st EXCEPT !.created = st.created \cup {name}]]

Exec(st, stmt) ==
    CASE stmt.op = "create" -> ExecCreate(st, stmt.table)
      [] stmt.op = "upsert" -> ExecInsert(st, stmt.table, stmt.row, TRUE)
      [] stmt.op = "insert" -> ExecInsert(st, stmt.table, stmt.row, FALSE)
      [] stmt.op = "update" -> ExecUpdateValidTo(st, stmt.row.id, stmt.row.valid_to)

----------------------------------------------------------------------------
(* Startup: main() and ensureSchemaAndSeed() *)

CreatedNames ==
    << "dataplatform", "veranstalter", "betriebsstaette", "geraet", "player",
       "device_assignment", "status_abfrage" >>

\* Variant: the venues are inserted before the organizers that own them.
SeedStatementsVenuesFirst(venues, devs, assignments) ==
    [i \in 1..Len(CreatedNames) |->
        [op |-> "create", table |-> CreatedNames[i], row |-> << >>]]
    \o [i \in 1..Len(venues) |->
        [op |-> "upsert", table |-> "betriebsstaette",
         row |-> [id              |-> venues[i].betriebsstaette_id,
                  veranstalter_id |-> venues[i].veranstalter_id]]]
    \o [i \in 1..Len(veranstalter) |->
        [op |-> "upsert", table |-> "veranstalter",
         row |-> [id |-> veranstalter[i].veranstalter_id]]]
    \o [i \in 1..Len(devs) |->
        [op |-> "upsert", table |-> "geraet",
         row |-> [id |-> devs[i].geraete_id]]]
    \o [i \in 1..Len(players) |->
        [op |-> "upsert", table |-> "player",
         row |-> [id |-> players[i].player_id]]]
    \o [i \in 1..Len(assignments) |->
        [op |-> "upsert", table |-> "device_assignment",
         row |-> [id                 |-> assignments[i].assignment_id,
                  geraet_id          |-> assignments[i].geraete_id,
                  veranstalter_id    |-> assignments[i].veranstalter_id,
                  betriebsstaette_id |-> assignments[i].betriebsstaette_id,
                  valid_from         |-> assignments[i].valid_from,
                  valid_to           |-> assignments[i].valid_to]]]

\* The statements ensureSchemaAndSeed issues, in order (index.js:33-163)
SeedStatements(venues, devs, assignments) ==
    [i \in 1..Len(CreatedNames) |->
        [op |-> "create", table |-> CreatedNames[i], row |-> << >>]]
    \o [i \in 1..Len(veranstalter) |->
        [op |-> "upsert", table |-> "veranstalter",
         row |-> [id |-> veranstalter[i].veranstalter_id]]]
    \o [i \in 1..Len(venues) |->
        [op |-> "upsert", table |-> "betriebsstaette",
         row |-> [id              |-> venues[i].betriebsstaette_id,
                  veranstalter_id |-> venues[i].veranstalter_id]]]
    \o [i \in 1..Len(devs) |->
        [op |-> "upsert", table |-> "geraet",
         row |-> [id |-> devs[i].geraete_id]]]
    \o [i \in 1..Len(players) |->
        [op |-> "upsert", table |-> "player",
         row |-> [id |-> players[i].player_id]]]
    \o [i \in 1..Len(assignments) |->
        [op |-> "upsert", table |-> "device_assignment",
         row |-> [id                 |-> assignments[i].assignment_id,
                  geraet_id          |-> assignments[i].geraete_id,
                  veranstalter_id    |-> assignments[i].veranstalter_id,
                  betriebsstaette_id |-> assignments[i].betriebsstaette_id,
                  valid_from         |-> assignments[i].valid_from,
                  valid_to           |-> assignments[i].valid_to]]]

\* What the store answers to a statement: its effect when it accepts the
\* statement, an error when the statement breaks a key or the store is down.
Answer(st, stmt, up) ==
    IF up THEN Exec(st, stmt) ELSE [ok |-> FALSE, store |-> st]

\* Variant: an interval of 0, the timer is due again at once.
NextFireAtOnce(t) == t

\* The timer armed at time t fires next at
NextFireAfter(t) == t + Interval

\* No "Device moved" line written yet
NoLine == [geraet |-> "", from |-> <<"id", "">>, to |-> <<"id", "">>]

\* The hello service with no request received
HelloIdle == [requests |-> << >>, responses |-> << >>]

InitState ==
    /\ phase = "connecting"
    /\ seedPc = 1
    /\ seedRuns = 0
    /\ betriebsstaetten \in Prefixes(AllBetriebsstaetten)
    /\ devices \in Prefixes(AllDevices)
    /\ activeAssignments = InitialActiveAssignments(devices, betriebsstaetten)
    /\ store = EmptyStore
    /\ inflight = << >>
    /\ clock = 0
    /\ nextFire = 0
    /\ uuids = 0
    /\ log = [inserted |-> 0, moved |-> 0, errors |-> 0, line |-> NoLine]
    /\ rejected = 0
    /\ lastDraw = Null

\* No change event captured, the silver table not built yet
CdcIdle == [bronze |-> << >>, silver |-> {}, built |-> FALSE, fresh |-> FALSE]

Init ==
    /\ InitState
    /\ hello = HelloIdle
    /\ cdc = CdcIdle

\* await client.connect(); a failure reaches main().catch: process.exit(1)
Connect ==
    /\ phase = "connecting"
    /\ \E up \in BOOLEAN :
        IF up
        THEN /\ phase' = "seeding"
             /\ log' = log
        ELSE /\ phase' = "exited"
             /\ log' = [log EXCEPT !.errors = @ + 1]
    /\ UNCHANGED <<seedPc, seedRuns, betriebsstaetten, devices, activeAssignments,
                   store, inflight, clock, nextFire, uuids, rejected, hello,
                   lastDraw, cdc>>

\* Variant: the seeding loops are not awaited, ensureSchemaAndSeed returns
\* once the schema is created.
SeedingReturnsAfterSchema(pc, stmts) == pc >= Len(CreatedNames)

\* `await ensureSchemaAndSeed()` returns when the answer to its last
\* statement has arrived.
SeedingReturns(pc, stmts) == pc >= Len(stmts)

\* One statement of ensureSchemaAndSeed.  A rejected statement throws out of
\* main(): "Fatal error", process.exit(1).  After the last statement of the
\* last of `runs` calls main() goes on to setInterval(insertStatus, 10 * 1000).
SeedStep(runs) ==
    /\ phase = "seeding"
    /\ LET stmts == SeedStatements(betriebsstaetten, devices, activeAssignments) IN
       \E up \in BOOLEAN :
         LET res == Answer(store, stmts[seedPc], up) IN
         IF ~res.ok
         THEN /\ phase' = "exited"
              /\ rejected' = rejected + 1
              /\ log' = [log EXCEPT !.errors = @ + 1]
              /\ UNCHANGED <<seedPc, seedRuns, store, nextFire>>
         ELSE /\ store' = res.store
              /\ UNCHANGED <<rejected, log>>
              /\ IF ~SeedingReturns(seedPc, stmts)
                 THEN /\ seedPc' = seedPc + 1
                      /\ UNCHANGED <<phase, seedRuns, nextFire>>
                 ELSE /\ seedPc' = 1
                      /\ seedRuns' = seedRuns + 1
                      /\ IF seedRuns + 1 < runs
                         THEN UNCHANGED <<phase, nextFire>>
                         ELSE /\ phase' = "running"
                              /\ nextFire' = NextFireAfter(clock)
    /\ UNCHANGED <<betriebsstaetten, devices, activeAssignments, inflight, clock,
                   uuids, hello,
                   lastDraw, cdc>>

----------------------------------------------------------------------------
(* The periodic step: insertStatus() and maybeReassignDevice().  The code  *)
(* between two awaits runs without interruption, so each action below is   *)
(* one such stretch: from the timer firing to the first await, and from    *)
(* the answer to a statement to the next await or the end of the tick.     *)

NoVenue == [betriebsstaette_id |-> "", veranstalter_id |-> ""]

\* An insertStatus invocation suspended at an await; `assignment`, `current`
\* are the positions in activeAssignments of the locals of those names.
Tick(pc, started, stmt, assignment, current, next, now) ==
    [pc |-> pc, started |-> started, stmt |-> stmt, assignment |-> assignment,
     current |-> current, next |-> next, now |-> now]

\* Variant: the organizer is the first of the list, whatever the venue.
StatusValuesFirstOrganizer(assignment, player, uuid, ts) ==
    [unique_identifier  |-> uuid,
     status_ts          |-> ts,
     veranstalter_id    |-> veranstalter[1].veranstalter_id,
     betriebsstaette_id |-> assignment.betriebsstaette_id,
     geraete_id         |-> assignment.geraete_id,
     player_id          |-> player.player_id]

\* const values = [...] of insertStatus (index.js:252-262)
StatusValues(assignment, player, uuid, ts) ==
    [unique_identifier  |-> uuid,
     status_ts          |-> ts,
     veranstalter_id    |-> assignment.veranstalter_id,
     betriebsstaette_id |-> assignment.betriebsstaette_id,
     geraete_id         |-> assignment.geraete_id,
     player_id          |-> player.player_id]

\* Variant: the new assignment keeps the organizer of the one it supersedes.
NewAssignmentKeepsOrganizer(current, next, uuid, now) ==
    [assignment_id      |-> uuid,
     geraete_id         |-> current.geraete_id,
     veranstalter_id    |-> current.veranstalter_id,
     betriebsstaette_id |-> next.betriebsstaette_id,
     valid_from         |-> now,
     valid_to           |-> Null]

\* Variant: the new assignment keeps the venue of the one it supersedes.
NewAssignmentSameVenue(current, next, uuid, now) ==
    [assignment_id      |-> uuid,
     geraete_id         |-> current.geraete_id,
     veranstalter_id    |-> current.veranstalter_id,
     betriebsstaette_id |-> current.betriebsstaette_id,
     valid_from         |-> now,
     valid_to           |-> Null]

\* const newAssignment = {...} of maybeReassignDevice (index.js:194-201)
NewAssignment(current, next, uuid, now) ==
    [assignment_id      |-> uuid,
     geraete_id         |-> current.geraete_id,
     veranstalter_id    |-> next.veranstalter_id,
     betriebsstaette_id |-> next.betriebsstaette_id,
     valid_from         |-> now,
     valid_to           |-> Null]

\* The INSERT of an assignment (index.js:205-219)
AssignmentRow(a) ==
    [id                 |-> a.assignment_id,
     geraet_id          |-> a.geraete_id,
     veranstalter_id    |-> a.veranstalter_id,
     betriebsstaette_id |-> a.betriebsstaette_id,
     valid_from         |-> a.valid_from,
     valid_to           |-> a.valid_to]

\* Variant: no filter on valid_to, every position is a candidate.
StatusCandidatesUnfiltered(arr) == [i \in 1..Len(arr) |-> i]

\* Positions insertStatus draws its assignment from (index.js:233-234)
StatusCandidates(arr) == FilterActive(arr, 1)

\* Positions maybeReassignDevice draws `current` from (index.js:171)
ReassignCandidates(arr) == chooseRandom(arr)

\* Variant: valid_to is left alone in memory.
LeaveOpen(arr, c, now) == arr

\* current.valid_to = now (index.js:183), current being arr[c]
SetValidTo(arr, c, now) == [arr EXCEPT ![c].valid_to = now]

\* if (Math.random() > 0.1) return;
SkipsReassign(draw) == draw > ReassignThreshold

\* The timer fires: insertStatus() runs up to `await client.query(query, values)`.
\* Reading a field of an undefined player or assignment throws before the try
\* block is entered: the promise insertStatus returned rejects, nothing handles
\* it, and the process ends.
TimerFire ==
    /\ phase = "running"
    /\ clock = nextFire
    /\ nextFire' = NextFireAfter(nextFire)
    /\ uuids' = uuids + 1
    /\ LET assignments == StatusCandidates(activeAssignments) IN
       \E p \in chooseRandom(players), a \in chooseRandom(assignments) :
         IF p = 0 \/ a = 0
         THEN /\ phase' = "crashed"
              /\ inflight' = << >>
         ELSE /\ phase' = phase
              /\ inflight' = Append(inflight,
                    Tick("status", clock,
                         [op |-> "insert", table |-> "status_abfrage",
                          row |-> StatusValues(activeAssignments[assignments[a]],
                                               players[p], randomUUID(uuids + 1),
                                               clock)],
                         assignments[a], 0, NoVenue, Null))
    /\ UNCHANGED <<seedPc, seedRuns, betriebsstaetten, devices, activeAssignments,
                   store, clock, log, rejected, hello,
                   lastDraw, cdc>>

\* The tick at the head of the connection's queue ends: it leaves the queue.
TickEnds == inflight' = Tail(inflight)

\* The tick at the head goes on to await another statement.
TickAwaits(t) == inflight' = Append(Tail(inflight), t)

\* catch (err) { console.error("Error inserting status:", err); }
\* The tick ends with the catch block.
CatchError ==
    /\ log' = [log EXCEPT !.errors = @ + 1]
    /\ rejected' = rejected + 1
    /\ TickEnds

\* Variant: maybeReassignDevice() is called from the catch block.
ReassignOnFailure(inserted) == ~inserted

\* Variant: maybeReassignDevice() is called after the try/catch statement.
ReassignAlways(inserted) == TRUE

\* `await maybeReassignDevice()` stands inside the try, after the awaited
\* INSERT: it is reached when that INSERT did not throw.
ReassignAfterStatus(inserted) == inserted

\* maybeReassignDevice() up to `await client.query(UPDATE ...)`
MaybeReassignDevice(t) ==
    \E draw \in RandomDraws :
      /\ lastDraw' = draw
      /\ IF SkipsReassign(draw)
         THEN /\ TickEnds
              /\ UNCHANGED activeAssignments
         ELSE \E c \in ReassignCandidates(activeAssignments) :
                LET current == activeAssignments[c]
                    options == ReassignOptions(betriebsstaetten, current)
                IN  IF Len(options) = 0
                    THEN /\ TickEnds
                         /\ UNCHANGED activeAssignments
                    ELSE \E n \in chooseRandom(options) :
                           /\ activeAssignments' =
                                 SetValidTo(activeAssignments, c, clock)
                           /\ TickAwaits(
                                 Tick("update", t.started,
                                      [op |-> "update",
                                       table |-> "device_assignment",
                                       row |-> [id |-> current.assignment_id,
                                                valid_to |-> clock]],
                                      t.assignment, c, options[n], clock))

\* The store answers the status INSERT (index.js:264-272).
StatusDone ==
    /\ phase = "running"
    /\ inflight /= << >>
    /\ Head(inflight).pc = "status"
    /\ \E up \in BOOLEAN :
        LET t == Head(inflight)
            res == Answer(store, t.stmt, up)
        IN  /\ store' = res.store
            /\ IF res.ok
               THEN /\ log' = [log EXCEPT !.inserted = @ + 1]
                    /\ UNCHANGED rejected
               ELSE /\ log' = [log EXCEPT !.errors = @ + 1]
                    /\ rejected' = rejected + 1
            /\ IF ReassignAfterStatus(res.ok)
               THEN MaybeReassignDevice(t)
               ELSE /\ TickEnds
                    /\ UNCHANGED <<activeAssignments, lastDraw>>
    /\ UNCHANGED <<phase, seedPc, seedRuns, betriebsstaetten, devices, clock,
                   nextFire, uuids, hello, cdc>>

\* The store answers the UPDATE (index.js:185-219): the new assignment is
\* built, pushed and its INSERT awaited; an error goes to insertStatus's catch.
UpdateDone ==
    /\ phase = "running"
    /\ inflight /= << >>
    /\ Head(inflight).pc = "update"
    /\ \E up \in BOOLEAN :
        LET t == Head(inflight)
            res == Answer(store, t.stmt, up)
            newAssignment == NewAssignment(activeAssignments[t.current], t.next,
                                           randomUUID(uuids + 1), t.now)
        IN  IF res.ok
            THEN /\ store' = res.store
                 /\ uuids' = uuids + 1
                 /\ activeAssignments' = Append(activeAssignments, newAssignment)
                 /\ TickAwaits([t EXCEPT !.pc = "insert",
                                  !.stmt = [op |-> "insert",
                                            table |-> "device_assignment",
                                            row |-> AssignmentRow(newAssignment)]])
                 /\ UNCHANGED <<log, rejected>>
            ELSE /\ CatchError
                 /\ UNCHANGED <<store, uuids, activeAssignments>>
    /\ UNCHANGED <<phase, seedPc, seedRuns, betriebsstaetten, devices, clock,
                   nextFire, hello,
                   lastDraw, cdc>>

\* fromBetrieb ? fromBetrieb.name : current.betriebsstaette_id, with
\* fromBetrieb = betriebsstaetteById.get(id): the venue's name when the map
\* has the id, the id itself otherwise.
VenueLabel(venues, id) ==
    IF \E i \in DOMAIN venues : venues[i].betriebsstaette_id = id
    THEN <<"name", id>>
    ELSE <<"id", id>>

\* Variant: source and destination the other way round.
MovedLineSwapped(current, next, venues) ==
    [geraet |-> current.geraete_id,
     from   |-> VenueLabel(venues, next.betriebsstaette_id),
     to     |-> VenueLabel(venues, current.betriebsstaette_id)]

\* console.log(`Device moved ${current.geraete_id} from ... to ...`)
MovedLine(current, next, venues) ==
    [geraet |-> current.geraete_id,
     from   |-> VenueLabel(venues, current.betriebsstaette_id),
     to     |-> VenueLabel(venues, next.betriebsstaette_id)]

\* The store answers the INSERT of the new assignment (index.js:205-228).
InsertDone ==
    /\ phase = "running"
    /\ inflight /= << >>
    /\ Head(inflight).pc = "insert"
    /\ \E up \in BOOLEAN :
        LET t == Head(inflight)
            res == Answer(store, t.stmt, up)
        IN  IF res.ok
            THEN /\ store' = res.store
                 /\ log' = [log EXCEPT !.moved = @ + 1,
                                       !.line = MovedLine(activeAssignments[t.current],
                                                          t.next, betriebsstaetten)]
                 /\ TickEnds
                 /\ UNCHANGED rejected
            ELSE /\ CatchError
                 /\ UNCHANGED store
    /\ UNCHANGED <<phase, seedPc, seedRuns, betriebsstaetten, devices,
                   activeAssignments, clock, nextFire, uuids, hello,
                   lastDraw, cdc>>

\* Time passes.  Before the timer is armed the clock's reading is never
\* used, so the clock is left at rest until then; a due timer fires first.
Advance ==
    /\ phase = "running"
    /\ clock < MaxClock
    /\ clock < nextFire
    /\ clock' = clock + 1
    /\ UNCHANGED <<phase, seedPc, seedRuns, betriebsstaetten, devices,
                   activeAssignments, store, inflight, nextFire, uuids, log,
                   rejected, hello,
                   lastDraw, cdc>>

\* The store after one complete run of ensureSchemaAndSeed from st
RECURSIVE RunStatements(_, _, _)
RunStatements(st, stmts, i) ==
    IF i > Len(stmts) THEN st
    ELSE RunStatements(Exec(st, stmts[i]).store, stmts, i + 1)

Next ==
    \/ Connect
    \/ SeedStep(1)
    \/ TimerFire
    \/ StatusDone
    \/ UpdateDone
    \/ InsertDone
    \/ Advance

Spec == Init /\ [][Next]_vars

\* ensureSchemaAndSeed() called twice in a row on one connection, from an
\* empty store, before the timer is armed.
NextSeed ==
    \/ Connect
    \/ SeedStep(2)

\* The event loop runs a due timer and every answer that has arrived, and
\* the store answers every statement it is sent.
SpecLive ==
    /\ Init
    /\ [][Next]_vars
    /\ WF_vars(TimerFire)
    /\ WF_vars(Advance)
    /\ WF_vars(StatusDone)
    /\ WF_vars(UpdateDone)
    /\ WF_vars(InsertDone)

\* The process is killed (the pod is deleted, the node goes down): the
\* service installs no signal handler and nothing is flushed or rolled back.
\* Statements the store has not executed yet are lost with the connection.
Kill ==
    /\ phase = "running"
    /\ phase' = "killed"
    /\ inflight' = << >>
    /\ UNCHANGED <<seedPc, seedRuns, betriebsstaetten, devices, activeAssignments,
                   store, clock, nextFire, uuids, log, rejected, hello,
                   lastDraw, cdc>>

\* The service is started again (restartPolicy of its pod): the module is
\* loaded afresh, so the working copy is rebuilt from device_assignments.js
\* (index.js:23-26); the store is the one the earlier process wrote to.
Restart ==
    /\ phase \in {"killed", "crashed"}
    /\ seedRuns <= MaxRestarts
    /\ phase' = "connecting"
    /\ seedPc' = 1
    /\ activeAssignments' = InitialActiveAssignments(devices, betriebsstaetten)
    /\ inflight' = << >>
    /\ lastDraw' = Null
    /\ UNCHANGED <<seedRuns, betriebsstaetten, devices, store, clock, nextFire,
                   uuids, log, rejected, hello, cdc>>

NextRestart ==
    \/ Connect
    \/ SeedStep(1)
    \/ TimerFire
    \/ StatusDone
    \/ UpdateDone
    \/ InsertDone
    \/ Advance
    \/ Kill
    \/ Restart

\* One device, and both venues for it to move between
InitRestart ==
    /\ Init
    /\ Len(devices) = 1
    /\ Len(betriebsstaetten) = Len(AllBetriebsstaetten)

SpecRestart == InitRestart /\ [][NextRestart]_vars

SpecSeed == Init /\ [][NextSeed]_vars

----------------------------------------------------------------------------
(* The hello service (services/hello/server.js) behind the gateway.        *)
(* express.json() has parsed the body: an object or array, or nothing.     *)

HelloBodies == { "undefined", "{}", "{\"device\":\"g1\"}", "[1,2]" }

\* The Authorization header of a request: absent, a valid token, an expired
\* or forged one, or not a bearer token at all
HelloAuthorizations == { "absent", "valid", "invalid", "malformed" }

HelloRequests ==
    [body : HelloBodies, authorization : HelloAuthorizations]

\* Variant: the handler answers 401 unless the token is valid.
PostHelloChecksToken(req, now) ==
    IF req.authorization = "valid"
    THEN [status |-> 200, ok |-> TRUE, ts |-> now, noise |-> "meaningless-shit",
          youSent |-> IF req.body = "undefined" THEN "null" ELSE req.body]
    ELSE [status |-> 401, ok |-> FALSE, ts |-> now, noise |-> "meaningless-shit",
          youSent |-> "null"]

\* app.post("/hello", (req, res) => res.json({ok, ts, noise, youSent: req.body ?? null}))
PostHello(req, now) ==
    [status  |-> 200,
     ok      |-> TRUE,
     ts      |-> now,
     noise   |-> "meaningless-shit",
     youSent |-> IF req.body = "undefined" THEN "null" ELSE req.body]

\* Two POST /hello requests that differ at most in their Authorization header
InitHello ==
    /\ InitState
    /\ Len(devices) = 1
    /\ Len(betriebsstaetten) = 1
    /\ hello \in { [requests |-> << a, b >>, responses |-> << >>] :
                      a \in HelloRequests, b \in HelloRequests }
    /\ hello.requests[1].body = hello.requests[2].body
    /\ cdc = CdcIdle

\* The service answers the next request.
HelloPost ==
    /\ Len(hello.responses) < Len(hello.requests)
    /\ hello' = [hello EXCEPT !.responses =
                    Append(@, PostHello(hello.requests[Len(@) + 1], clock))]
    /\ UNCHANGED <<phase, seedPc, seedRuns, betriebsstaetten, devices,
                   activeAssignments, store, inflight, clock, nextFire, uuids,
                   log, rejected, lastDraw, cdc>>

NextHello == HelloPost

SpecHello == InitHello /\ [][NextHello]_vars

----------------------------------------------------------------------------
(* The silver models of dbt (dbt/models/silver/*.sql) over the change       *)
(* events Debezium writes to bronze.  device_assignment, geraet and player  *)
(* are the same query over different columns: the key, the after-image (of  *)
(* which valid_to stands for the payload), and ts_ms.                       *)

\* Primary keys of the captured table
CdcKeys == {1, 2}

\* ts_ms of the event captured last, 1 when there is none
LastTs(bronze) == IF Len(bronze) = 0 THEN 1 ELSE bronze[Len(bronze)].ts_ms

\* The events that can be captured next: ts_ms never decreases along the
\* log.  A delete has no after-image.
NextEvents(bronze) ==
    { e \in [id : CdcKeys, after : BOOLEAN, valid_to : {Null} \cup 1..MaxTs,
             ts_ms : 1..MaxTs] :
        /\ e.ts_ms >= LastTs(bronze)
        /\ e.valid_to \in {Null, e.ts_ms}
        /\ ~e.after => e.valid_to = Null }

\* Maximum of a non-empty set of numbers
Max(S) == CHOOSE x \in S : \A y \in S : y <= x

\* select coalesce(max(cdc_ts_ms), 0) from {{ this }}
Watermark(this) ==
    IF this = {} THEN 0 ELSE Max({ r.cdc_ts_ms : r \in this })

\* Variant: no watermark, every run reads the whole of bronze.
CdcRowsAll(bronze, this, incremental) ==
    { p \in DOMAIN bronze : bronze[p].after }

\* The cdc CTE: positions of the events with an after-image and, on an
\* incremental run, ts_ms above the watermark of the table
CdcRows(bronze, this, incremental) ==
    { p \in DOMAIN bronze :
        /\ bronze[p].after
        /\ incremental => bronze[p].ts_ms > Watermark(this) }

\* Variant: order by cdc_ts_ms asc
RankFirstAscending(bronze, sel, id) ==
    { p \in sel :
        /\ bronze[p].id = id
        /\ \A q \in sel : bronze[q].id = id => bronze[q].ts_ms >= bronze[p].ts_ms }

\* The deduped CTE: the events of key id that row_number() over (partition
\* by id order by cdc_ts_ms desc) can number 1; ties are broken arbitrarily
RankFirst(bronze, sel, id) ==
    { p \in sel :
        /\ bronze[p].id = id
        /\ \A q \in sel : bronze[q].id = id => bronze[q].ts_ms <= bronze[p].ts_ms }

\* A row of the silver table
SilverRow(e) ==
    [assignment_id |-> e.id, valid_to |-> e.valid_to, cdc_ts_ms |-> e.ts_ms]

\* The results the model's query can return: one row per key among sel
QueryResults(bronze, sel) ==
    LET ids == { bronze[p].id : p \in sel }
        picks == { f \in [ids -> sel] : \A id \in ids : f[id] \in RankFirst(bronze, sel, id) }
    IN  { { SilverRow(bronze[f[id]]) : id \in ids } : f \in picks }

\* incremental_strategy='merge' on the unique key
Merge(this, out) ==
    { r \in this : \A o \in out : o.assignment_id /= r.assignment_id } \cup out

\* Debezium captures a change of the table.
CdcCapture ==
    /\ Len(cdc.bronze) < MaxEvents
    /\ \E e \in NextEvents(cdc.bronze) :
          cdc' = [cdc EXCEPT !.bronze = Append(@, e), !.fresh = FALSE]
    /\ UNCHANGED <<phase, seedPc, seedRuns, betriebsstaetten, devices,
                   activeAssignments, store, inflight, clock, nextFire, uuids,
                   log, rejected, hello, lastDraw>>

\* dbt run: the first run builds the table from the whole of bronze, later
\* runs are incremental.
SilverRun ==
    /\ ~cdc.fresh
    /\ \E out \in QueryResults(cdc.bronze,
                                CdcRows(cdc.bronze, cdc.silver, cdc.built)) :
          cdc' = [cdc EXCEPT !.silver = IF cdc.built THEN Merge(@, out) ELSE out,
                             !.built = TRUE,
                             !.fresh = TRUE]
    /\ UNCHANGED <<phase, seedPc, seedRuns, betriebsstaetten, devices,
                   activeAssignments, store, inflight, clock, nextFire, uuids,
                   log, rejected, hello, lastDraw>>

InitSilver ==
    /\ Init
    /\ Len(devices) = 1
    /\ Len(betriebsstaetten) = 1

NextSilver ==
    \/ CdcCapture
    \/ SilverRun

SpecSilver == InitSilver /\ [][NextSilver]_vars

----------------------------------------------------------------------------
(* Properties *)

DeviceIds == { devices[i].geraete_id : i \in DOMAIN devices }

\* Positions of the in-memory assignments of device g with valid_to == null
ActiveOf(g) ==
    { i \in DOMAIN activeAssignments :
        /\ activeAssignments[i].geraete_id = g
        /\ activeAssignments[i].valid_to = Null }

\* The timer is armed and no insertStatus invocation is in progress.
BetweenTicks == phase = "running" /\ inflight = << >>

SameIds(row, a) ==
    /\ row.veranstalter_id = a.veranstalter_id
    /\ row.betriebsstaette_id = a.betriebsstaette_id
    /\ row.geraete_id = a.geraete_id

\* C1: with one seed assignment per device and every store statement
\* succeeding, between ticks every device has exactly one in-memory
\* assignment with valid_to == null.
C1_SingleActivePerDevice ==
    (BetweenTicks /\ rejected = 0) =>
        \A g \in DeviceIds : Cardinality(ActiveOf(g)) = 1

\* C2: a row of device_assignment whose valid_to is non-null keeps that
\* valid_to in every later step.
C2_ValidToWrittenOnce ==
    [][\A r \in store.device_assignment :
          r.valid_to /= Null =>
              \E r2 \in store'.device_assignment :
                  r2.id = r.id /\ r2.valid_to = r.valid_to]_vars

\* C3: the status INSERT a tick issues carries the organizer, venue and
\* device ids of an in-memory assignment whose valid_to is null when the
\* INSERT is issued, and every row the table gains is the row so issued.
C3_StatusReferencesLive ==
    [][/\ (phase = "running" /\ nextFire' /= nextFire /\ phase' = "running") =>
            LET row == inflight'[Len(inflight')].stmt.row IN
            /\ inflight'[Len(inflight')].pc = "status"
            /\ \E i \in DOMAIN activeAssignments :
                  /\ activeAssignments[i].valid_to = Null
                  /\ SameIds(row, activeAssignments[i])
       /\ \A r \in store'.status_abfrage \ store.status_abfrage :
            /\ inflight /= << >>
            /\ Head(inflight).pc = "status"
            /\ r = Head(inflight).stmt.row]_vars

\* C3 witness: a status row taken after a reassignment from the assignment
\* that reassignment opened.
C3_Witness ==
    \E r \in store.status_abfrage, i \in DOMAIN activeAssignments :
        /\ i > Len(devices)
        /\ SameIds(r, activeAssignments[i])
        /\ r.status_ts >= activeAssignments[i].valid_from
        /\ \E j \in DOMAIN activeAssignments :
              /\ activeAssignments[j].valid_to /= Null
              /\ activeAssignments[j].geraete_id = r.geraete_id

\* C4: when maybeReassignDevice takes the reassignment branch and another
\* venue exists, the destination differs from the venue of the assignment it
\* supersedes, the valid_to it sets is not before that assignment's
\* valid_from, and the new assignment is at the destination.
C4_ReassignChangesVenue ==
    [][/\ \A i \in DOMAIN activeAssignments :
            activeAssignments'[i].valid_to /= activeAssignments[i].valid_to =>
                LET t == inflight'[Len(inflight')] IN
                /\ t.pc = "update" /\ t.current = i
                /\ t.next.betriebsstaette_id /=
                       activeAssignments[i].betriebsstaette_id
                /\ activeAssignments'[i].valid_to >=
                       activeAssignments[i].valid_from
       /\ Len(activeAssignments') > Len(activeAssignments) =>
            LET new == activeAssignments'[Len(activeAssignments')]
                old == activeAssignments[Head(inflight).current]
            IN  /\ new.betriebsstaette_id /= old.betriebsstaette_id
                /\ old.valid_to >= old.valid_from]_vars

\* C4 witness: a device has been moved; the superseded assignment is closed
\* after its valid_from and its successor is in memory.
C4_Witness ==
    \E i, j \in DOMAIN activeAssignments :
        /\ activeAssignments[i].valid_to > activeAssignments[i].valid_from
        /\ activeAssignments[j].valid_from = activeAssignments[i].valid_to
        /\ activeAssignments[j].geraete_id = activeAssignments[i].geraete_id
        /\ activeAssignments[j].betriebsstaette_id /=
               activeAssignments[i].betriebsstaette_id

\* C5: when the store rejects a tick's status INSERT, the error is logged,
\* the tick ends there without reaching the reassignment step, the process
\* and its timer go on, and neither the in-memory assignments nor the store
\* change.
C5_InsertFailureIsolated ==
    [][(/\ inflight /= << >>
        /\ Head(inflight).pc = "status"
        /\ rejected' = rejected + 1) =>
            /\ log'.errors = log.errors + 1
            /\ log'.inserted = log.inserted
            /\ inflight' = Tail(inflight)
            /\ activeAssignments' = activeAssignments
            /\ store' = store
            /\ phase' = "running"
            /\ nextFire' = nextFire]_vars

\* C5 witness: the first tick's INSERT was rejected, nothing in memory
\* changed, and the second tick's row is in the table.
C5_Witness ==
    /\ phase = "running"
    /\ rejected = 1
    /\ log.errors = 1
    /\ activeAssignments = InitialActiveAssignments(devices, betriebsstaetten)
    /\ { r.unique_identifier : r \in store.status_abfrage } = { randomUUID(2) }

\* C6: no error escapes insertStatus: the promise it returns never rejects
\* and no tick ends the process.
C6_NoErrorEscapes == phase /= "crashed"

\* C7: with exactly one venue no in-memory assignment ever changes, none is
\* appended, and no tick issues an UPDATE or an INSERT on device_assignment.
C7_OneVenueNoOp ==
    Len(betriebsstaetten) = 1 =>
        LET seed == InitialActiveAssignments(devices, betriebsstaetten) IN
        /\ activeAssignments = seed
        /\ \A k \in DOMAIN inflight : inflight[k].stmt.table = "status_abfrage"
        /\ store.device_assignment \subseteq
               { AssignmentRow(seed[i]) : i \in DOMAIN seed }

\* C7 witness: one venue, and the reassignment step has been invoked after
\* two successful status inserts.
C7_Witness ==
    /\ Len(betriebsstaetten) = 1
    /\ Len(devices) = 2
    /\ log.inserted >= 2
    /\ BetweenTicks

\* C8: the second run of ensureSchemaAndSeed issues no statement the store
\* rejects and changes no table: after it, as after the first run, the store
\* holds exactly the rows of one run from the empty store.
C8_SeedingIdempotent ==
    LET stmts == SeedStatements(betriebsstaetten, devices, activeAssignments) IN
    /\ (phase = "seeding" /\ seedRuns = 1) =>
          /\ Exec(store, stmts[seedPc]).ok
          /\ Exec(store, stmts[seedPc]).store = store
    /\ seedRuns >= 1 => store = RunStatements(EmptyStore, stmts, 1)

\* C8 witness: both runs completed without an error, two devices seeded.
C8_Witness ==
    /\ seedRuns = 2
    /\ phase = "running"
    /\ rejected = 0
    /\ log.errors = 0
    /\ Cardinality(store.device_assignment) = 2
    /\ Cardinality(store.betriebsstaette) = 2

\* C9: from an empty store and with every statement succeeding, between
\* ticks the device_assignment table holds exactly the in-memory assignments,
\* each with the same valid_to.
C9_StoreMirrorsMemory ==
    (BetweenTicks /\ rejected = 0) =>
        store.device_assignment =
            { AssignmentRow(activeAssignments[i]) : i \in DOMAIN activeAssignments }

\* C9 witness: between ticks, after an assignment was closed twice and two
\* assignments were appended.
C9_Witness ==
    /\ BetweenTicks
    /\ rejected = 0
    /\ Len(activeAssignments) >= Len(devices) + 2
    /\ \E r \in store.device_assignment : r.valid_to > Interval

\* C10 as stated: at most one insertStatus invocation is in progress.
C10_TicksNeverOverlap == Len(inflight) <= 1

\* C10 amended: two invocations are in progress only when the earlier one
\* has been running for at least the timer interval; invocations start at
\* least one interval apart.
C10_OverlapOnlyWhenSlow ==
    \A j, k \in DOMAIN inflight :
        j /= k =>
            /\ inflight[j].started /= inflight[k].started
            /\ inflight[j].started < inflight[k].started =>
                  /\ inflight[k].started - inflight[j].started >= Interval
                  /\ clock - inflight[j].started >= Interval

\* C10 witness: a tick is still awaiting the store when the next one starts.
C10_Witness ==
    /\ Len(inflight) = 2
    /\ inflight[1].pc = "update"
    /\ inflight[2].pc = "status"

\* An assignment and a later version of it agree on all but valid_to.
SameButValidTo(a, b) ==
    /\ a.geraete_id = b.geraete_id
    /\ a.veranstalter_id = b.veranstalter_id
    /\ a.betriebsstaette_id = b.betriebsstaette_id
    /\ a.valid_from = b.valid_from

\* C11: no step removes an assignment from memory or a row from
\* device_assignment, and no step changes the id, device, organizer, venue
\* or valid_from of an existing one.
C11_AppendOnlyButValidTo ==
    [][/\ Len(activeAssignments') >= Len(activeAssignments)
       /\ \A i \in DOMAIN activeAssignments :
            /\ activeAssignments'[i].assignment_id =
                   activeAssignments[i].assignment_id
            /\ SameButValidTo(activeAssignments[i], activeAssignments'[i])
       /\ \A r \in store.device_assignment :
            \E r2 \in store'.device_assignment :
                /\ r2.id = r.id
                /\ r2.geraet_id = r.geraet_id
                /\ r2.veranstalter_id = r.veranstalter_id
                /\ r2.betriebsstaette_id = r.betriebsstaette_id
                /\ r2.valid_from = r.valid_from]_vars

\* C11 witness: a seed assignment is closed in memory and in the store and
\* its successor is in both.
C11_Witness ==
    /\ Len(activeAssignments) > Len(devices)
    /\ activeAssignments[1].valid_to /= Null
    /\ \E r \in store.device_assignment :
          r.id = activeAssignments[1].assignment_id /\ r.valid_to /= Null
    /\ \E r \in store.device_assignment : r.id > Len(AllDevices)

\* The timer fires in this step.
Fires == phase = "running" /\ nextFire' /= nextFire

\* Ticks awaiting the answer to their status INSERT
AwaitingStatus(q) == { k \in DOMAIN q : q[k].stmt.table = "status_abfrage" }

\* C12, the part about the rows: a step adds at most one status row, under a
\* key the table did not hold, only when the store accepts the INSERT of the
\* tick at the head of the queue; no row is changed or deleted; the table has
\* as many rows as "Inserted status" lines were logged.
C12_RowsAppendOnly ==
    [][/\ store.status_abfrage \subseteq store'.status_abfrage
       /\ Cardinality(store'.status_abfrage) <= Cardinality(store.status_abfrage) + 1
       /\ \A r \in store'.status_abfrage \ store.status_abfrage :
            /\ r.unique_identifier \notin
                   { x.unique_identifier : x \in store.status_abfrage }
            /\ log'.inserted = log.inserted + 1
       /\ Cardinality(store'.status_abfrage) = log'.inserted]_vars

\* C12: every firing of the timer issues exactly one status INSERT, no other
\* step issues one, and the rows of status_abfrage are append-only and as
\* many as the ticks whose INSERT succeeded.
C12_OneInsertPerTick ==
    [][/\ Fires =>
            /\ Len(inflight') = Len(inflight) + 1
            /\ inflight'[Len(inflight')].stmt.table = "status_abfrage"
       /\ ~Fires =>
            Cardinality(AwaitingStatus(inflight')) <=
                Cardinality(AwaitingStatus(inflight))
       /\ store.status_abfrage \subseteq store'.status_abfrage
       /\ \A r \in store'.status_abfrage \ store.status_abfrage :
            r.unique_identifier \notin
                { x.unique_identifier : x \in store.status_abfrage }
       /\ Cardinality(store'.status_abfrage) = log'.inserted]_vars

\* The timer has been armed, or a tick has left a trace.
TimerStarted ==
    \/ phase \in {"running", "crashed"}
    \/ nextFire > 0
    \/ uuids > 0
    \/ inflight /= << >>
    \/ store.status_abfrage /= {}

\* C13: the timer is armed only once the connection, the schema and all
\* seed rows are in place; a failure of the connection or of a schema or
\* seed statement leaves the process exited (code 1) with no tick ever run.
C13_TimerAfterStartup ==
    LET seeded == RunStatements(EmptyStore,
                      SeedStatements(betriebsstaetten, devices,
                          InitialActiveAssignments(devices, betriebsstaetten)), 1)
    IN
    /\ TimerStarted =>
          /\ seedRuns = 1
          /\ phase /= "exited"
          /\ store.created = seeded.created
          /\ store.veranstalter = seeded.veranstalter
          /\ store.betriebsstaette = seeded.betriebsstaette
          /\ store.geraet = seeded.geraet
          /\ store.player = seeded.player
          /\ Ids(seeded.device_assignment) \subseteq Ids(store.device_assignment)
    /\ phase \in {"connecting", "seeding"} =>
          /\ log.errors = 0
          /\ rejected = 0
    /\ phase = "exited" =>
          /\ log.errors = 1
          /\ ~TimerStarted

\* C13 witness: the last seed statement was rejected; the process exited
\* with the first seed assignment stored and no timer.
C13_Witness ==
    /\ phase = "exited"
    /\ rejected = 1
    /\ Len(devices) = 2
    /\ Cardinality(store.device_assignment) = 1

\* The parents a row of device_assignment or status_abfrage refers to exist.
RowsReferToParents(st) ==
    /\ \A r \in st.betriebsstaette : ForeignKeysHold(st, "betriebsstaette", r)
    /\ \A r \in st.device_assignment : ForeignKeysHold(st, "device_assignment", r)
    /\ \A r \in st.status_abfrage : ForeignKeysHold(st, "status_abfrage", r)

\* C14: the statement the store executes next, a seed insert or a tick's
\* INSERT, names a created table and refers only to organizer, venue, device
\* and player ids already stored; every stored row refers to stored parents.
C14_ForeignKeysSatisfied ==
    /\ phase = "seeding" =>
          LET stmt == SeedStatements(betriebsstaetten, devices,
                                     activeAssignments)[seedPc]
          IN  stmt.op = "upsert" =>
                  /\ stmt.table \in store.created
                  /\ ForeignKeysHold(store, stmt.table, stmt.row)
    /\ (phase = "running" /\ inflight /= << >>) =>
          LET stmt == Head(inflight).stmt
          IN  stmt.op = "insert" =>
                  /\ stmt.table \in store.created
                  /\ ForeignKeysHold(store, stmt.table, stmt.row)
    /\ RowsReferToParents(store)

\* C14 witness: a tick has stored an assignment of g1 at b2 and a status row
\* taken from it.
C14_Witness ==
    /\ \E r \in store.device_assignment :
          r.id > Len(AllDevices) /\ r.betriebsstaette_id = "b2"
    /\ \E r \in store.status_abfrage :
          r.geraete_id = "g1" /\ r.betriebsstaette_id = "b2"

\* C15: every status row carries the organizer and venue its device has in
\* the static reference data, and a device appears with one venue only in
\* all status rows.
C15_StatusUsesStaticDeviceData ==
    LET seed == deviceAssignments(devices, betriebsstaetten) IN
    /\ \A r \in store.status_abfrage :
          \E i \in DOMAIN seed : SameIds(r, seed[i])
    /\ \A r1, r2 \in store.status_abfrage :
          r1.geraete_id = r2.geraete_id =>
              r1.betriebsstaette_id = r2.betriebsstaette_id

\* C16: two POST /hello requests that differ only in the Authorization
\* header get status 200, ok true and the same youSent, the request's body
\* (null when there is none).
C16_HelloIgnoresAuthorization ==
    \A i \in DOMAIN hello.responses :
        /\ hello.responses[i].status = 200
        /\ hello.responses[i].ok
        /\ hello.responses[i].youSent =
               (IF hello.requests[i].body = "undefined" THEN "null"
                ELSE hello.requests[i].body)
        /\ \A j \in DOMAIN hello.responses :
              hello.requests[i].body = hello.requests[j].body =>
                  hello.responses[i].youSent = hello.responses[j].youSent

\* C16 witness: the same body sent without a token and with an invalid
\* token, both answered.
C16_Witness ==
    /\ Len(hello.responses) = 2
    /\ hello.requests[1].authorization = "absent"
    /\ hello.requests[2].authorization = "invalid"
    /\ hello.requests[1].body = "{\"device\":\"g1\"}"

\* The step in which the tick at the head of the queue, its status INSERT
\* answered, selects an assignment and goes on to await the UPDATE.
SelectsCurrent ==
    /\ phase = "running"
    /\ inflight /= << >>
    /\ Head(inflight).pc = "status"
    /\ Len(inflight') = Len(inflight)
    /\ inflight' /= inflight

\* The tick that has just selected
Selected == inflight'[Len(inflight')]

\* C17: the assignment maybeReassignDevice selects as the one being moved,
\* and whose valid_to it sets, is active (valid_to null) in memory at the
\* moment of selection.
C17_SelectedIsActive ==
    [][SelectsCurrent => activeAssignments[Selected.current].valid_to = Null]_vars

Range(q) == { q[i] : i \in DOMAIN q }

\* The ticks of the queue after the step that await a statement pc they did
\* not await before it: the statement is issued in this step.
Issues(pc) == { t \in Range(inflight') : t.pc = pc /\ t \notin Range(inflight) }

\* C18: an UPDATE on device_assignment is issued only in the step in which
\* the same tick's status INSERT succeeded, an INSERT on device_assignment
\* only by the tick whose UPDATE was just answered (so at most once per
\* tick), and a tick whose status INSERT failed ends without issuing either.
C18_ReassignOnlyAfterStatus ==
    [][phase = "running" /\ phase' = "running" =>
         /\ \A t \in Issues("update") :
               /\ Head(inflight).pc = "status"
               /\ Head(inflight).started = t.started
               /\ Head(inflight).stmt.row \in store'.status_abfrage
               /\ Head(inflight).stmt.row \notin store.status_abfrage
               /\ log'.inserted = log.inserted + 1
               /\ rejected' = rejected
               /\ Cardinality(Issues("update")) = 1
         /\ \A t \in Issues("insert") :
               /\ Head(inflight).pc = "update"
               /\ Head(inflight).started = t.started
               /\ Cardinality(Issues("insert")) = 1
         /\ (inflight /= << >> /\ Head(inflight).pc = "status"
               /\ rejected' = rejected + 1) =>
               /\ inflight' = Tail(inflight)
               /\ store'.device_assignment = store.device_assignment
               /\ activeAssignments' = activeAssignments
         /\ store'.device_assignment /= store.device_assignment =>
               Head(inflight).pc \in {"update", "insert"}
    ]_vars

\* C18 witness: one tick's status INSERT was rejected and the tick has ended,
\* while another tick, its status row stored, awaits its UPDATE.
C18_Witness ==
    /\ phase = "running"
    /\ rejected = 1
    /\ log.errors = 1
    /\ Len(inflight) = 1
    /\ inflight[1].pc = "update"
    /\ \E r \in store.status_abfrage : r.status_ts = inflight[1].started

\* The step in which the UPDATE of the head tick is answered without error
\* and the tick builds and pushes its new assignment.
CreatesAssignment ==
    /\ phase = "running"
    /\ inflight /= << >>
    /\ Head(inflight).pc = "update"
    /\ Len(activeAssignments') = Len(activeAssignments) + 1

Created == activeAssignments'[Len(activeAssignments')]

\* C19: the assignment the reassignment step creates has an id no assignment
\* in memory or in the store has, the device of the superseded assignment,
\* the destination venue and the organizer owning that venue, valid_from
\* equal to the timestamp the step's UPDATE wrote as valid_to, and valid_to
\* null; it is appended to the working copy, the INSERT of exactly that row
\* is issued, and the row is in the store once the store accepts it.
C19_NewAssignmentWellFormed ==
    [][/\ CreatesAssignment =>
            LET t == Head(inflight)
                superseded == activeAssignments[t.current]
            IN  /\ \A i \in DOMAIN activeAssignments :
                      activeAssignments[i].assignment_id /= Created.assignment_id
                /\ Created.assignment_id \notin Ids(store.device_assignment)
                /\ Created.geraete_id = superseded.geraete_id
                /\ Created.betriebsstaette_id = t.next.betriebsstaette_id
                /\ Created.betriebsstaette_id /= superseded.betriebsstaette_id
                /\ \E i \in DOMAIN betriebsstaetten :
                      /\ betriebsstaetten[i].betriebsstaette_id =
                             Created.betriebsstaette_id
                      /\ betriebsstaetten[i].veranstalter_id =
                             Created.veranstalter_id
                /\ t.stmt.op = "update"
                /\ t.stmt.row.id = superseded.assignment_id
                /\ Created.valid_from = t.stmt.row.valid_to
                /\ Created.valid_to = Null
                /\ \A i \in DOMAIN activeAssignments :
                      activeAssignments'[i] = activeAssignments[i]
                /\ \E n \in Issues("insert") :
                      /\ n.stmt.table = "device_assignment"
                      /\ n.stmt.row = AssignmentRow(Created)
                      /\ n.started = t.started
       /\ (/\ phase = "running"
           /\ phase' = "running"
           /\ inflight /= << >>
           /\ Head(inflight).pc = "insert"
           /\ inflight' = Tail(inflight)
           /\ rejected' = rejected) =>
              /\ Head(inflight).stmt.row \in store'.device_assignment
              /\ Head(inflight).stmt.row \notin store.device_assignment
              /\ \E i \in DOMAIN activeAssignments :
                    /\ activeAssignments[i].assignment_id =
                           Head(inflight).stmt.row.id
                    /\ [AssignmentRow(activeAssignments[i])
                           EXCEPT !.valid_to = Null] = Head(inflight).stmt.row
    ]_vars

\* C19 witness: a reassignment has completed; the assignment it created is
\* the last of the working copy, at the other venue, and its row is stored.
C19_Witness ==
    /\ BetweenTicks
    /\ log.moved = 1
    /\ Len(activeAssignments) = Len(devices) + 1
    /\ activeAssignments[Len(activeAssignments)].valid_from > SeedValidFrom
    /\ AssignmentRow(activeAssignments[Len(activeAssignments)])
           \in store.device_assignment

\* The end of an assignment's validity interval; an open one has not ended.
ValidUntil(a) == IF a.valid_to = Null THEN MaxClock + 1 ELSE a.valid_to

\* [valid_from, valid_to) of a and of b have an instant in common
Overlap(a, b) == a.valid_from < ValidUntil(b) /\ b.valid_from < ValidUntil(a)

\* Positions of the working copy holding an assignment of device g
AssignmentsOf(g) ==
    { i \in DOMAIN activeAssignments : activeAssignments[i].geraete_id = g }

\* No two reassignments of device g read the same instant off the clock.
DistinctInstants(g) ==
    \A i, j \in AssignmentsOf(g) :
        i /= j => activeAssignments[i].valid_from /= activeAssignments[j].valid_from

\* C20: between ticks, no statement rejected, the validity intervals of a
\* device's assignments (reassigned at distinct instants) are pairwise
\* non-overlapping, and each closed assignment's valid_to is the valid_from
\* of exactly one other assignment of the device.
C20_IntervalsContiguous ==
    (BetweenTicks /\ rejected = 0) =>
        \A g \in { d \in DeviceIds : DistinctInstants(d) } :
            /\ \A i, j \in AssignmentsOf(g) :
                  i /= j => ~Overlap(activeAssignments[i], activeAssignments[j])
            /\ \A i \in AssignmentsOf(g) :
                  activeAssignments[i].valid_to /= Null =>
                      Cardinality({ j \in AssignmentsOf(g) :
                          /\ j /= i
                          /\ activeAssignments[j].valid_from =
                                 activeAssignments[i].valid_to }) = 1

\* The step in which the head tick's status INSERT is answered without
\* error, so that maybeReassignDevice() is called and draws.
CallsReassign ==
    /\ phase = "running"
    /\ inflight /= << >>
    /\ Head(inflight).pc = "status"
    /\ log'.inserted = log.inserted + 1

\* C21: the reassignment step does nothing when the draw is greater than or
\* equal to the threshold, a draw equal to it included, and selects an
\* assignment only when the draw is strictly below it.
C21_SkipsAtThreshold ==
    [][CallsReassign =>
         /\ lastDraw' >= ReassignThreshold =>
               /\ inflight' = Tail(inflight)
               /\ activeAssignments' = activeAssignments
         /\ SelectsCurrent => lastDraw' < ReassignThreshold
    ]_vars

\* Ids of the rows of device_assignment in st for device g with valid_to null
OpenRows(st, g) ==
    { r.id : r \in { x \in st.device_assignment :
                        x.geraet_id = g /\ x.valid_to = Null } }

\* The process is killed while the head tick awaits the INSERT of its new
\* assignment: its UPDATE has been executed, its INSERT has not.
KilledBetweenCloseAndOpen ==
    /\ phase = "running"
    /\ phase' = "killed"
    /\ inflight /= << >>
    /\ Head(inflight).pc = "insert"

\* C22: the close and the open are separate autocommitted statements; when
\* the process dies between them the closing UPDATE stays committed without
\* the INSERT, and a device whose only open assignment was being moved is
\* left with no row with valid_to null.
C22_CrashLeavesNoActiveRow ==
    [][(KilledBetweenCloseAndOpen /\ rejected = 0 /\ seedRuns = 1) =>
          LET t == Head(inflight)
              superseded == activeAssignments[t.current]
          IN  /\ t.stmt.row \notin store'.device_assignment
              /\ \A r \in store'.device_assignment :
                    r.id = superseded.assignment_id => r.valid_to >= t.now
              /\ superseded.assignment_id \in Ids(store'.device_assignment)
              /\ superseded.assignment_id
                    \notin OpenRows(store', superseded.geraete_id)
              /\ (/\ Len(inflight) = 1
                   /\ \A i \in AssignmentsOf(superseded.geraete_id) :
                         activeAssignments[i].valid_to = Null =>
                            activeAssignments[i].assignment_id = t.stmt.row.id)
                  => OpenRows(store', superseded.geraete_id) = {}
    ]_vars

\* C22 witness: the process was killed, no statement was ever rejected, and
\* a device has no row with valid_to null in the store.
C22_Witness ==
    /\ phase = "killed"
    /\ rejected = 0
    /\ seedRuns = 1
    /\ \E g \in DeviceIds : OpenRows(store, g) = {}
    /\ \A g \in DeviceIds :
          \E r \in store.device_assignment : r.geraet_id = g

\* A store statement of some tick has failed and the timer is set for n.
FailedTickBefore(n) ==
    /\ phase = "running"
    /\ log.errors > 0
    /\ nextFire = n

\* The tick the timer starts at n awaits its status INSERT.
AttemptsStatusAt(n) ==
    \E i \in DOMAIN inflight :
        inflight[i].pc = "status" /\ inflight[i].started = n

\* C23: the timer keeps firing after a failed tick: whenever a statement of
\* a tick has failed and the timer is set for an instant n within the
\* horizon, the tick started at n eventually attempts its status INSERT.
C23_FailedTickIsFollowed ==
    \A n \in 1..MaxClock : FailedTickBefore(n) ~> AttemptsStatusAt(n)

\* Either that tick attempts its status INSERT or the process has ended on
\* the unhandled rejection of insertStatus.
C23_FollowedUnlessCrashed ==
    \A n \in 1..MaxClock :
        FailedTickBefore(n) ~> (AttemptsStatusAt(n) \/ phase = "crashed")

\* C24: while the service runs, an "Inserted status" line is written exactly
\* in the step in which a tick's status INSERT succeeds, a "Device moved"
\* line exactly in the step in which the INSERT of a reassignment (whose
\* UPDATE had succeeded) succeeds, naming the device and the source and
\* destination venues of that reassignment, and an error line exactly in
\* the step in which the store rejects a statement.
C24_LogMatchesOutcome ==
    [][phase = "running" =>
         /\ log'.inserted = log.inserted + 1 <=>
               /\ inflight /= << >>
               /\ Head(inflight).pc = "status"
               /\ Head(inflight).stmt.row \in store'.status_abfrage
               /\ Head(inflight).stmt.row \notin store.status_abfrage
         /\ log'.inserted \in {log.inserted, log.inserted + 1}
         /\ log'.moved = log.moved + 1 <=>
               /\ inflight /= << >>
               /\ Head(inflight).pc = "insert"
               /\ Head(inflight).stmt.row \in store'.device_assignment
               /\ Head(inflight).stmt.row \notin store.device_assignment
         /\ log'.moved \in {log.moved, log.moved + 1}
         /\ log'.moved = log.moved + 1 =>
               LET t == Head(inflight) IN
               /\ log'.line.geraet = t.stmt.row.geraet_id
               /\ log'.line.to = <<"name", t.stmt.row.betriebsstaette_id>>
               /\ log'.line.from =
                     <<"name", activeAssignments[t.current].betriebsstaette_id>>
               /\ log'.line.from /= log'.line.to
         /\ log'.moved = log.moved => log'.line = log.line
         /\ log'.errors = log.errors + 1 <=> rejected' = rejected + 1
         /\ log'.errors \in {log.errors, log.errors + 1}
    ]_vars

\* C24 witness: all three kinds of line have been written.
C24_Witness ==
    /\ BetweenTicks
    /\ log.inserted >= 2
    /\ log.moved = 1
    /\ log.errors = 1
    /\ log.line.geraet = "g1"
    /\ log.line.from = <<"name", "b1">>
    /\ log.line.to = <<"name", "b2">>

\* C25: between ticks, after the store has rejected statements, every
\* in-memory assignment has its row in device_assignment and the row has the
\* valid_to the assignment has in memory.
C25_RejectionKeepsAgreement ==
    (BetweenTicks /\ rejected >= 1) =>
        \A i \in DOMAIN activeAssignments :
            \E r \in store.device_assignment :
                /\ r.id = activeAssignments[i].assignment_id
                /\ r.valid_to = activeAssignments[i].valid_to

\* Ids of the in-memory assignments of device g with valid_to null
ActiveIds(g) ==
    { activeAssignments[i].assignment_id : i \in ActiveOf(g) }

\* C26: once a later process has completed startup against the store an
\* earlier process wrote, between ticks and with no statement rejected, the
\* assignments active in memory for a device are the rows with valid_to null
\* of that device, and there is at most one such row.
C26_RestartAgreesWithStore ==
    (BetweenTicks /\ seedRuns >= 2 /\ rejected = 0) =>
        \A g \in DeviceIds :
            /\ ActiveIds(g) = OpenRows(store, g)
            /\ Cardinality(OpenRows(store, g)) <= 1

\* The second half of C26 alone: at most one row with valid_to null per
\* device after a restart.
C26_OneOpenRowAfterRestart ==
    (BetweenTicks /\ seedRuns >= 2 /\ rejected = 0) =>
        \A g \in DeviceIds : Cardinality(OpenRows(store, g)) <= 1

\* The first half of C26 for a store in which every device has exactly one
\* row with valid_to null, right after the later process has started and
\* before it has reassigned anything.
C26_CleanHistoryAgrees ==
    (/\ BetweenTicks
     /\ seedRuns >= 2
     /\ rejected = 0
     /\ lastDraw = Null
     /\ \A g \in DeviceIds : Cardinality(OpenRows(store, g)) = 1) =>
        \A g \in DeviceIds : ActiveIds(g) = OpenRows(store, g)

\* C27: with no statement rejected, overlapping ticks included, while a
\* status row waits to be committed the store has not recorded as closed
\* the assignment the row's ids were read from: the assignment's row is
\* either not inserted yet or has valid_to null, and it carries the ids.
C27_StatusBeforeClose ==
    (phase = "running" /\ rejected = 0) =>
        \A k \in DOMAIN inflight :
            inflight[k].pc = "status" =>
                LET a == activeAssignments[inflight[k].assignment] IN
                /\ inflight[k].stmt.row.geraete_id = a.geraete_id
                /\ inflight[k].stmt.row.betriebsstaette_id = a.betriebsstaette_id
                /\ inflight[k].stmt.row.veranstalter_id = a.veranstalter_id
                /\ \A r \in store.device_assignment :
                      r.id = a.assignment_id => r.valid_to = Null
                /\ a.assignment_id \notin Ids(store.device_assignment) =>
                      \E j \in 1..(k - 1) :
                          /\ inflight[j].pc = "insert"
                          /\ inflight[j].stmt.row.id = a.assignment_id

\* C27 witness: two ticks overlap; the later one's status INSERT is ahead,
\* in the connection's queue, of the UPDATE that closes the assignment its
\* row was read from.
C27_Witness ==
    /\ phase = "running"
    /\ rejected = 0
    /\ Len(inflight) = 2
    /\ inflight[1].pc = "status"
    /\ inflight[2].pc = "update"
    /\ inflight[2].current = inflight[1].assignment
    /\ inflight[2].started < inflight[1].started

\* Organizer o is the owner of venue b in betriebsstaetten.js.
Owns(o, b) ==
    \E i \in DOMAIN AllBetriebsstaetten :
        /\ AllBetriebsstaetten[i].betriebsstaette_id = b
        /\ AllBetriebsstaetten[i].veranstalter_id = o

\* Every seed assignment names the owner of its venue.
SeedOwnersConsistent ==
    \A i \in DOMAIN deviceAssignments(devices, betriebsstaetten) :
        LET a == deviceAssignments(devices, betriebsstaetten)[i] IN
        Owns(a.veranstalter_id, a.betriebsstaette_id)

\* C28: if every seed assignment names the owner of its venue, then every
\* in-memory assignment, every device_assignment row and every
\* status_abfrage row names the owner of its venue.
C28_OrganizerOwnsVenue ==
    SeedOwnersConsistent =>
        /\ \A i \in DOMAIN activeAssignments :
              Owns(activeAssignments[i].veranstalter_id,
                   activeAssignments[i].betriebsstaette_id)
        /\ \A r \in store.device_assignment :
              Owns(r.veranstalter_id, r.betriebsstaette_id)
        /\ \A r \in store.status_abfrage :
              Owns(r.veranstalter_id, r.betriebsstaette_id)
        /\ \A k \in DOMAIN inflight :
              inflight[k].pc /= "update" =>
                  Owns(inflight[k].stmt.row.veranstalter_id,
                       inflight[k].stmt.row.betriebsstaette_id)

\* C28 witness: device g1, seeded at b1, has been moved to b2 and a status
\* row was written for it there.
C28_Witness ==
    /\ BetweenTicks
    /\ SeedOwnersConsistent
    /\ \E r \in store.device_assignment :
          r.geraet_id = "g1" /\ r.betriebsstaette_id = "b2"
    /\ \E r \in store.status_abfrage :
          r.geraete_id = "g1" /\ r.betriebsstaette_id = "b2"

\* The events a run starting in the current state reads
ReadByRun == CdcRows(cdc.bronze, cdc.silver, cdc.built)

\* C29: a run of a silver model leaves, for every key among the events with
\* an after-image it read, exactly one row, and that row carries the
\* greatest ts_ms (and the payload of an event with that ts_ms) among those
\* events; rows of other keys stay as they were.
C29_OneLatestRowPerKey ==
    [][cdc'.fresh /\ ~cdc.fresh =>
         /\ \A id \in { cdc.bronze[p].id : p \in ReadByRun } :
               /\ Cardinality({ r \in cdc'.silver : r.assignment_id = id }) = 1
               /\ \A r \in cdc'.silver :
                     r.assignment_id = id =>
                        /\ r.cdc_ts_ms =
                              Max({ cdc.bronze[p].ts_ms :
                                      p \in { q \in ReadByRun : cdc.bronze[q].id = id } })
                        /\ \E p \in ReadByRun : r = SilverRow(cdc.bronze[p])
         /\ \A r \in cdc'.silver :
               r.assignment_id \notin { cdc.bronze[p].id : p \in ReadByRun } =>
                  cdc.built /\ r \in cdc.silver
         /\ \A p \in DOMAIN cdc.bronze :
               ~cdc.bronze[p].after => p \notin ReadByRun
    ]_vars

\* C29 witness: a run has read two events of one key and one of another,
\* and the table holds one row per key.
C29_Witness ==
    /\ cdc.fresh
    /\ Len(cdc.bronze) = 3
    /\ cdc.bronze[1].id = cdc.bronze[2].id
    /\ cdc.bronze[3].id /= cdc.bronze[1].id
    /\ \A p \in DOMAIN cdc.bronze : cdc.bronze[p].after
    /\ Cardinality(cdc.silver) = 2
    /\ \E r \in cdc.silver : r.cdc_ts_ms = cdc.bronze[2].ts_ms /\ r.valid_to /= Null

\* Position of the last event captured for key id, 0 when there is none
LastEventOf(id) ==
    IF \E p \in DOMAIN cdc.bronze : cdc.bronze[p].id = id
    THEN Max({ p \in DOMAIN cdc.bronze : cdc.bronze[p].id = id })
    ELSE 0

\* No two changes of one row carry the same ts_ms.
DistinctTsPerKey ==
    \A p, q \in DOMAIN cdc.bronze :
        (p /= q /\ cdc.bronze[p].id = cdc.bronze[q].id) =>
            cdc.bronze[p].ts_ms /= cdc.bronze[q].ts_ms

\* C30: once a run has executed after the last event arrived, the silver
\* row of every assignment whose latest change event has an after-image
\* carries that event's valid_to (events of one assignment having distinct
\* ts_ms, so that the latest is the one ranked first).
C30_NoEventSkipped ==
    (cdc.fresh /\ DistinctTsPerKey) =>
        \A id \in CdcKeys :
            (LastEventOf(id) /= 0 /\ cdc.bronze[LastEventOf(id)].after) =>
                \E r \in cdc.silver :
                    /\ r.assignment_id = id
                    /\ r.valid_to = cdc.bronze[LastEventOf(id)].valid_to

====
